---- MODULE Spec2Model ----
(***************************************************************************)
(* Model of the batch image runner of rfi-text-extractor:                  *)
(*   src/src/black_roi/folder_importer.py  safe_load_image, process_images *)
(*   src/src/streamlit_app.py              process_images,                 *)
(*                                         load_image_safely               *)
(* File names are sequences of one-character strings, so that lower(),     *)
(* endswith(), Path.stem and Path.suffix are computed as the library       *)
(* computes them.  A file's content is abstracted to what each open/decode *)
(* call of the code does on it.                                            *)
(***************************************************************************)
EXTENDS Integers, Sequences, FiniteSets, TLC

VARIABLES
  impl,            \* which process_images runs: "fi" (folder_importer) or "sa" (streamlit_app)
  fs,              \* files under input_folder: [dir, name] -> content
  dirs,            \* directories under input_folder (relative, as component sequences)
  outName,         \* output_folder_name, as path components
  ocr,             \* ocr_results: NoOcr, or stem -> record
  pc,              \* position in process_images / safe_load_image
  walkDirs,        \* os.walk: directories still to be yielded
  files,           \* fi: files of the current root left; sa: image_paths
  idx,             \* sa: index of the current element of image_paths
  cur,             \* the file being handled and its processed_path
  total_images,
  processed_count,
  skipped_count,
  original_stems,
  log,             \* process_log.txt, one tag (or summary record) per write
  attempts,        \* open/decode calls made on the current file, in order
  scanLog,         \* history: files counted as scanned in this run
  procLog,         \* history: files for which processed_count was incremented
  skipLog,         \* history: files for which skipped_count was incremented, with the reason
  raised,          \* the exception that left the function, or "none"
  run,             \* number of the current call of process_images
  history,         \* total_images of the finished calls
  result           \* safe_load_image: its return value

vars == <<impl, fs, dirs, outName, ocr, pc, walkDirs, files, idx, cur,
          total_images, processed_count, skipped_count, original_stems, log,
          attempts, scanLog, procLog, skipLog, raised, run, history, result>>

(***************************************************************************)
(* Bounds                                                                  *)
(***************************************************************************)
MaxFiles == 2        \* files in the input tree (batch runs)
MaxScanFiles == 2    \* files in the input tree (scan runs)
MaxRuns == 2         \* calls of process_images on the same tree

(***************************************************************************)
(* Strings                                                                 *)
(***************************************************************************)
UpperLetters == <<"A","B","C","D","E","F","G","H","I","J","K","L","M",
                  "N","O","P","Q","R","S","T","U","V","W","X","Y","Z">>
LowerLetters == <<"a","b","c","d","e","f","g","h","i","j","k","l","m",
                  "n","o","p","q","r","s","t","u","v","w","x","y","z">>
DigitChars == <<"0","1","2","3","4","5","6","7","8","9">>
Alphabet == <<".">> \o DigitChars \o UpperLetters \o <<"_">> \o LowerLetters

IndexIn(c, s) == CHOOSE i \in 1..Len(s) : s[i] = c
Occurs(c, s) == \E i \in 1..Len(s) : s[i] = c

\* str.lower(), str.upper()
LowerChar(c) == IF Occurs(c, UpperLetters) THEN LowerLetters[IndexIn(c, UpperLetters)] ELSE c
UpperChar(c) == IF Occurs(c, LowerLetters) THEN UpperLetters[IndexIn(c, LowerLetters)] ELSE c
Lower(s) == [i \in 1..Len(s) |-> LowerChar(s[i])]
Upper(s) == [i \in 1..Len(s) |-> UpperChar(s[i])]

\* str.endswith(suffix) and str.endswith(tuple)
EndsWith(s, suf) ==
  /\ Len(s) >= Len(suf)
  /\ SubSeq(s, Len(s) - Len(suf) + 1, Len(s)) = suf
EndsWithAny(s, sufs) == \E k \in 1..Len(sufs) : EndsWith(s, sufs[k])

\* str.rfind('.'), 0-based, -1 when absent
RFindDot(s) ==
  IF Occurs(".", s)
  THEN (CHOOSE i \in 1..Len(s) : s[i] = "." /\ \A j \in (i+1)..Len(s) : s[j] # ".") - 1
  ELSE -1

\* pathlib PurePath.suffix and PurePath.stem
PathSuffix(name) ==
  LET i == RFindDot(name)
  IN  IF 0 < i /\ i < Len(name) - 1 THEN SubSeq(name, i + 1, Len(name)) ELSE <<>>
PathStem(name) ==
  LET i == RFindDot(name)
  IN  IF 0 < i /\ i < Len(name) - 1 THEN SubSeq(name, 1, i) ELSE name

\* str.strip('.')
RECURSIVE LStripDot(_)
LStripDot(s) == IF s # <<>> /\ Head(s) = "." THEN LStripDot(Tail(s)) ELSE s
RECURSIVE RStripDot(_)
RStripDot(s) ==
  IF s # <<>> /\ s[Len(s)] = "." THEN RStripDot(SubSeq(s, 1, Len(s) - 1)) ELSE s
StripDot(s) == RStripDot(LStripDot(s))

\* str(n) of a natural number, as the f-string formats it
RECURSIVE IntStr(_)
IntStr(n) == IF n < 10 THEN <<DigitChars[n + 1]>>
             ELSE IntStr(n \div 10) \o <<DigitChars[(n % 10) + 1]>>

(***************************************************************************)
(* Program constants                                                       *)
(***************************************************************************)
\* folder_importer.process_images: the tuple given to endswith
FI_EXTENSIONS == << <<".","p","n","g">>, <<".","j","p","g">>, <<".","j","p","e","g">>,
                    <<".","b","m","p">>, <<".","t","i","f","f">>, <<".","g","i","f">> >>
\* streamlit_app.IMAGE_EXTENSIONS
IMAGE_EXTENSIONS == << <<".","p","n","g">>, <<".","j","p","g">>, <<".","j","p","e","g">>,
                       <<".","b","m","p">>, <<".","t","i","f","f">>, <<".","g","i","f">>,
                       <<".","t","i","f">> >>
JPEG == <<"J","P","E","G">>
PNG  == <<"P","N","G">>
BMP  == <<"B","M","P">>
TIFF == <<"T","I","F","F">>
GIF  == <<"G","I","F">>
WEBP == <<"W","E","B","P">>
\* faulty variant: PNG is tried before JPEG
common_formats_reordered == <<PNG, JPEG, BMP, TIFF, GIF, WEBP>>
\* safe_load_image: common_formats
common_formats == <<JPEG, PNG, BMP, TIFF, GIF, WEBP>>
LOG_NAME == <<"p","r","o","c","e","s","s","_","l","o","g",".","t","x","t">>

(***************************************************************************)
(* File contents, by what the library calls of the code do on them         *)
(*   state  "data", "empty" (zero bytes) or "unreadable" (open() raises)   *)
(*   sniff  imghdr.what(path) is not None                                  *)
(*   direct Image.open(path).convert("RGB") succeeds                       *)
(*   bytes  Image.open(BytesIO(data)).convert("RGB") succeeds              *)
(*   fmt    the format under which Image.open(..., formats=[fmt]) succeeds *)
(*   xform  what process_fn and the save do on the decoded image: "ok",     *)
(*          "process_fn" (it raises) or "save" (fromarray/save raises)      *)
(***************************************************************************)
NoFmt == <<>>
FormatSet == {common_formats[k] : k \in 1..Len(common_formats)}
Data(sn, di, by, fm, xf) ==
  [state |-> "data", sniff |-> sn, direct |-> di, bytes |-> by, fmt |-> fm, xform |-> xf]
EmptyFile == [state |-> "empty", sniff |-> FALSE, direct |-> FALSE, bytes |-> FALSE,
              fmt |-> NoFmt, xform |-> "ok"]
Unreadable == [state |-> "unreadable", sniff |-> FALSE, direct |-> FALSE, bytes |-> FALSE,
               fmt |-> NoFmt, xform |-> "ok"]
DataContents == [state : {"data"}, sniff : BOOLEAN, direct : BOOLEAN, bytes : BOOLEAN,
                 fmt : FormatSet \cup {NoFmt}, xform : {"ok"}]
Contents == DataContents \cup {EmptyFile, Unreadable}
GoodImage == Data(TRUE, TRUE, TRUE, PNG, "ok")
TextFile  == Data(FALSE, FALSE, FALSE, NoFmt, "ok")

\* imghdr.what(path): "raises" when the file cannot be opened
ImghdrWhat(c) == IF c.state = "unreadable" THEN "raises"
                 ELSE IF c.state = "data" /\ c.sniff THEN "image" ELSE "None"
\* faulty variant: the sniff verdict is ignored
IsNotImageNever(what) == FALSE
\* `imghdr.what(input_path) is None`
IsNotImage(what) == what = "None"
\* faulty variant: a failure inside the try is swallowed before the count
SavedAlways(c) == TRUE
\* the try body `np.array, process_fn, fromarray(...).save` runs to its end
Saved(c) == c.xform = "ok"
\* Image.open(path).convert("RGB")
OpenPath(c) == c.state = "data" /\ c.direct
\* Image.open(io.BytesIO(data)).convert("RGB")
OpenBytes(c) == c.state = "data" /\ c.bytes
\* Image.open(io.BytesIO(data), formats=[f]).convert("RGB"); an unregistered
\* format name raises as well
OpenAs(c, f) == c.state = "data" /\ f \in FormatSet /\ c.fmt = f

(***************************************************************************)
(* Paths                                                                   *)
(***************************************************************************)
Root == <<>>
File(d, n) == [dir |-> d, name |-> n]
IsPrefix(p, s) == Len(p) <= Len(s) /\ SubSeq(s, 1, Len(p)) = p
Prefixes(d) == {SubSeq(d, 1, k) : k \in 0..Len(d)}
DirsOf(paths) == UNION {Prefixes(p.dir) : p \in paths} \cup {Root}

\* scandir order is taken to be the sorted one
CompOrder == <<"output", "sub">>
DirKey(d) == [i \in 1..Len(d) |-> IndexIn(d[i], CompOrder)]
NameKey(n) == [i \in 1..Len(n) |-> IndexIn(n[i], Alphabet)]
RECURSIVE LexLess(_, _)
LexLess(a, b) ==
  IF a = <<>> THEN b # <<>>
  ELSE IF b = <<>> THEN FALSE
  ELSE IF Head(a) # Head(b) THEN Head(a) < Head(b)
  ELSE LexLess(Tail(a), Tail(b))
RECURSIVE SortDirs(_)
SortDirs(S) ==
  IF S = {} THEN <<>>
  ELSE LET m == CHOOSE x \in S : \A y \in S \ {x} : LexLess(DirKey(x), DirKey(y))
       IN  <<m>> \o SortDirs(S \ {m})
RECURSIVE SortNames(_)
SortNames(S) ==
  IF S = {} THEN <<>>
  ELSE LET m == CHOOSE x \in S : \A y \in S \ {x} : LexLess(NameKey(x), NameKey(y))
       IN  <<m>> \o SortNames(S \ {m})

\* os.walk(input_folder), top-down: the directories it yields, in order
OsWalk(ds) == SortDirs(ds)
\* the `files` of one yielded root
ListDir(tree, d) == SortNames({p.name : p \in {q \in DOMAIN tree : q.dir = d}})

\* faulty variant: only the output folder itself is skipped, not what is below it
SkipRootOnly(root, out) == root = out
\* `output_folder in root_path.parents or root_path == output_folder`
SkipRoot(root, out) == IsPrefix(out, root)

\* file.lower().endswith(exts)
IsImageName(name, exts) == EndsWithAny(Lower(name), exts)

(***************************************************************************)
(* OCR prefix and output name                                              *)
(* ocr_results is [none, map]; a record of the map is a function whose     *)
(* domain holds "X" when the key is present; its value is [list, vals]    *)
(* (list = FALSE: the value is not a sequence, len() raises).              *)
(***************************************************************************)
PyNone == [none |-> TRUE, map |-> <<>>]
Dict(m) == [none |-> FALSE, map |-> m]
NoKeys == [k \in {} |-> 0]
Rec(v) == [k \in {"X"} |-> [list |-> TRUE, vals |-> v]]
BadRec == [k \in {"X"} |-> [list |-> FALSE, vals |-> <<>>]]

\* `ocr_results and stem in ocr_results`
HasRecord(o, stem) == ~o.none /\ DOMAIN o.map # {} /\ stem \in DOMAIN o.map
\* ocr_results[stem].get('X', [])
GetX(o, stem) == IF "X" \in DOMAIN o.map[stem] THEN o.map[stem]["X"]
                 ELSE [list |-> TRUE, vals |-> <<>>]
\* len(x_vals) raises TypeError
NameRaises(o, stem) == HasRecord(o, stem) /\ ~GetX(o, stem).list
\* faulty variant: the prefix needs more than two values
OcrTextStrict(o, stem) ==
  IF HasRecord(o, stem)
  THEN LET x_vals == GetX(o, stem).vals
       IN  IF Len(x_vals) > 2
           THEN IntStr(x_vals[1]) \o <<"_">> \o IntStr(x_vals[2]) \o <<"_">>
           ELSE <<>>
  ELSE <<>>
OcrText(o, stem) ==
  IF HasRecord(o, stem)
  THEN LET x_vals == GetX(o, stem).vals
       IN  IF Len(x_vals) >= 2
           THEN IntStr(x_vals[1]) \o <<"_">> \o IntStr(x_vals[2]) \o <<"_">>
           ELSE <<>>
  ELSE <<>>
\* processed_name = f"{ocr_text}{stem}{suffix}"
ProcessedName(o, name) == OcrText(o, PathStem(name)) \o PathStem(name) \o PathSuffix(name)
\* processed_path = output_folder / relative_path.parent / processed_name
ProcessedPath(out, o, f) == File(out \o f.dir, ProcessedName(o, f.name))

(***************************************************************************)
(* State shared by the runs                                                *)
(***************************************************************************)
NoFile == File(Root, <<>>)
Att(strategy, f) == [strategy |-> strategy, fmt |-> f]
NoCur == [file |-> NoFile, out |-> NoFile]
Line(tag) == [tag |-> tag]
OutputLog == File(outName, LOG_NAME)
Content(f) == fs[f]

\* the file system after `path` was written with content c
WriteFile(tree, path, c) ==
  [q \in DOMAIN tree \cup {path} |-> IF q = path THEN c ELSE tree[q]]

\* the variables a call sets at its start
FreshRun ==
  /\ walkDirs' = <<>>
  /\ files' = <<>>
  /\ idx' = 0
  /\ cur' = NoCur
  /\ total_images' = 0
  /\ processed_count' = 0
  /\ skipped_count' = 0
  /\ original_stems' = <<>>
  /\ attempts' = <<>>
  /\ scanLog' = <<>>
  /\ procLog' = <<>>
  /\ skipLog' = <<>>

\* processed_path.parent.mkdir(parents=True, exist_ok=True): nothing to do
\* for a directory that exists, else it is created or the call raises
MkdirOutcomes(d) == IF d \in dirs THEN {"ok"} ELSE {"ok", "mkdir"}

\* an exception leaves process_images
Raise(e) ==
  /\ pc' = "raised"
  /\ raised' = e

\* faulty variant: the skip is logged but not counted
SkipUncounted(reason, next) ==
  /\ skipped_count' = skipped_count
  /\ skipLog' = Append(skipLog, [file |-> cur.file, reason |-> reason])
  /\ pc' = next
\* `skipped_count += 1; continue`
Skip(reason, next) ==
  /\ skipped_count' = skipped_count + 1
  /\ skipLog' = Append(skipLog, [file |-> cur.file, reason |-> reason])
  /\ pc' = next

(***************************************************************************)
(* folder_importer.process_images                                          *)
(***************************************************************************)
\* lines 73-89: output_folder.mkdir, open(log_path, "a"), counters
FI_Setup ==
  /\ pc = "start" /\ impl = "fi"
  /\ \E env \in {"ok", "mkdir", "open"} :
       /\ IF env = "ok" THEN pc' = "walk" /\ raised' = raised ELSE Raise(env)
       /\ dirs' = IF env = "mkdir" THEN dirs ELSE dirs \cup Prefixes(outName)
       /\ fs' = IF env = "ok" /\ OutputLog \notin DOMAIN fs
                THEN WriteFile(fs, OutputLog, TextFile) ELSE fs
  /\ FreshRun
  /\ UNCHANGED <<impl, outName, ocr, log, run, history, result>>

\* line 91: os.walk is entered (the generator lists the tree as it goes; the
\* directories are those present when the walk starts)
FI_StartWalk ==
  /\ pc = "walk" /\ impl = "fi"
  /\ pc' = "root"
  /\ walkDirs' = OsWalk(dirs)
  /\ UNCHANGED <<impl, fs, dirs, outName, ocr, files, idx, cur, total_images,
                 processed_count, skipped_count, original_stems, log, attempts,
                 scanLog, procLog, skipLog, raised, run, history, result>>

\* lines 91-96: the next root; the output folder and what is below it is skipped
FI_NextRoot ==
  /\ pc = "root" /\ impl = "fi" /\ walkDirs # <<>>
  /\ LET root == Head(walkDirs)
         names == ListDir(fs, root)
     IN  IF SkipRoot(root, outName)
         THEN files' = <<>> /\ pc' = "root"
         ELSE files' = [i \in 1..Len(names) |-> File(root, names[i])] /\ pc' = "file"
  /\ walkDirs' = Tail(walkDirs)
  /\ UNCHANGED <<impl, fs, dirs, outName, ocr, idx, cur, total_images,
                 processed_count, skipped_count, original_stems, log, attempts,
                 scanLog, procLog, skipLog, raised, run, history, result>>

\* lines 98-115: the next file of the root: extension test, count, output name,
\* parent directory of the output
FI_NextFile ==
  /\ pc = "file" /\ impl = "fi"
  /\ IF files = <<>>
     THEN /\ pc' = "root"
          /\ UNCHANGED <<files, cur, total_images, scanLog, attempts, dirs, raised>>
     ELSE LET f == Head(files)
              stem == PathStem(f.name)
              out == ProcessedPath(outName, ocr, f)
          IN  /\ files' = Tail(files)
              /\ IF ~IsImageName(f.name, FI_EXTENSIONS)
                 THEN /\ pc' = "file"
                      /\ UNCHANGED <<cur, total_images, scanLog, attempts, dirs, raised>>
                 ELSE /\ total_images' = total_images + 1
                      /\ scanLog' = Append(scanLog, f)
                      /\ attempts' = <<>>
                      /\ IF NameRaises(ocr, stem)
                         THEN Raise("name") /\ cur' = [file |-> f, out |-> NoFile]
                                            /\ dirs' = dirs
                         ELSE /\ cur' = [file |-> f, out |-> out]
                              /\ \E env \in MkdirOutcomes(out.dir) :
                                   IF env = "ok"
                                   THEN /\ pc' = "sniff" /\ raised' = raised
                                        /\ dirs' = dirs \cup Prefixes(out.dir)
                                   ELSE Raise("mkdir_parent") /\ dirs' = dirs
  /\ UNCHANGED <<impl, fs, outName, ocr, walkDirs, idx, processed_count,
                 skipped_count, original_stems, log, procLog, skipLog, run,
                 history, result>>

\* lines 117-121: imghdr.what outside any try
FI_Sniff ==
  /\ pc = "sniff" /\ impl = "fi"
  /\ attempts' = Append(attempts, Att("sniff", NoFmt))
  /\ LET what == ImghdrWhat(Content(cur.file))
     IN  IF what = "raises"
         THEN Raise("sniff") /\ UNCHANGED <<log, skipped_count, skipLog>>
         ELSE IF IsNotImage(what)
         THEN /\ log' = Append(log, Line("not_an_image"))
              /\ Skip("sniff", "file") /\ raised' = raised
         ELSE /\ pc' = "direct" /\ raised' = raised
              /\ UNCHANGED <<log, skipped_count, skipLog>>
  /\ UNCHANGED <<impl, fs, dirs, outName, ocr, walkDirs, files, idx, cur,
                 total_images, processed_count, original_stems, scanLog,
                 procLog, run, history, result>>

\* lines 124-128: Image.open(input_path)
FI_Direct ==
  /\ pc = "direct" /\ impl = "fi"
  /\ attempts' = Append(attempts, Att("direct", NoFmt))
  /\ IF OpenPath(Content(cur.file))
     THEN pc' = "process" /\ log' = log
     ELSE pc' = "bytes" /\ log' = Append(log, Line("primary_load_failed"))
  /\ UNCHANGED <<impl, fs, dirs, outName, ocr, walkDirs, files, idx, cur,
                 total_images, processed_count, skipped_count, original_stems,
                 scanLog, procLog, skipLog, raised, run, history, result>>

\* lines 131-136: Image.open(io.BytesIO(data))
FI_Bytes ==
  /\ pc = "bytes" /\ impl = "fi"
  /\ attempts' = Append(attempts, Att("bytes", NoFmt))
  /\ IF OpenBytes(Content(cur.file))
     THEN pc' = "process" /\ log' = Append(log, Line("recovered_bytes"))
     ELSE pc' = "forced" /\ log' = log
  /\ UNCHANGED <<impl, fs, dirs, outName, ocr, walkDirs, files, idx, cur,
                 total_images, processed_count, skipped_count, original_stems,
                 scanLog, procLog, skipLog, raised, run, history, result>>

\* lines 137-145: Image.open(io.BytesIO(data), formats=['JPEG'])
FI_ForceJpeg ==
  /\ pc = "forced" /\ impl = "fi"
  /\ attempts' = Append(attempts, Att("forced", JPEG))
  /\ IF OpenAs(Content(cur.file), JPEG)
     THEN /\ pc' = "process" /\ log' = Append(log, Line("recovered_jpeg"))
          /\ UNCHANGED <<skipped_count, skipLog>>
     ELSE /\ log' = Append(log, Line("cannot_open"))
          /\ Skip("decode", "file")
  /\ UNCHANGED <<impl, fs, dirs, outName, ocr, walkDirs, files, idx, cur,
                 total_images, processed_count, original_stems, scanLog,
                 procLog, raised, run, history, result>>

\* lines 147-160: process_fn, save, count
FI_Process ==
  /\ pc = "process" /\ impl = "fi"
  /\ IF Saved(Content(cur.file))
     THEN /\ fs' = WriteFile(fs, cur.out, GoodImage)
          /\ log' = Append(log, Line("saved"))
          /\ original_stems' = Append(original_stems, PathStem(cur.file.name))
          /\ processed_count' = processed_count + 1
          /\ procLog' = Append(procLog, cur.file)
          /\ pc' = "file"
          /\ UNCHANGED <<skipped_count, skipLog>>
     ELSE /\ log' = Append(log, Line("processing_failed"))
          /\ Skip("transform", "file")
          /\ UNCHANGED <<fs, original_stems, processed_count, procLog>>
  /\ UNCHANGED <<impl, dirs, outName, ocr, walkDirs, files, idx, cur,
                 total_images, attempts, scanLog, raised, run, history, result>>

\* lines 162-175: the summary (it has no success rate), close, return
FI_Summary ==
  /\ pc = "root" /\ impl = "fi" /\ walkDirs = <<>>
  /\ log' = Append(log, [tag |-> "summary", total |-> total_images,
                         processed |-> processed_count, skipped |-> skipped_count,
                         rate |-> <<>>])
  /\ pc' = "done"
  /\ UNCHANGED <<impl, fs, dirs, outName, ocr, walkDirs, files, idx, cur,
                 total_images, processed_count, skipped_count, original_stems,
                 attempts, scanLog, procLog, skipLog, raised, run, history, result>>

(***************************************************************************)
(* streamlit_app.process_images and load_image_safely                      *)
(***************************************************************************)
\* lines 46-60: output_folder.mkdir, open(log_path, "w"), counters
SA_Setup ==
  /\ pc = "start" /\ impl = "sa"
  /\ \E env \in {"ok", "mkdir", "open"} :
       /\ IF env = "ok" THEN pc' = "walk" /\ raised' = raised ELSE Raise(env)
       /\ dirs' = IF env = "mkdir" THEN dirs ELSE dirs \cup Prefixes(outName)
       /\ fs' = IF env = "ok" /\ OutputLog \notin DOMAIN fs
                THEN WriteFile(fs, OutputLog, TextFile) ELSE fs
       /\ log' = IF env = "ok" THEN <<>> ELSE log
  /\ FreshRun
  /\ UNCHANGED <<impl, outName, ocr, run, history, result>>

\* lines 63-71: image_paths of the roots of a walk
RECURSIVE CollectImagePaths(_, _, _)
CollectImagePaths(tree, roots, out) ==
  IF roots = <<>> THEN <<>>
  ELSE LET root == Head(roots)
           names == SelectSeq(ListDir(tree, root),
                              LAMBDA n : IsImageName(n, IMAGE_EXTENSIONS))
           here == IF SkipRoot(root, out) THEN <<>>
                   ELSE [i \in 1..Len(names) |-> File(root, names[i])]
       IN  here \o CollectImagePaths(tree, Tail(roots), out)

\* lines 62-78: collect, total_images = len(image_paths), first log line
SA_Collect ==
  /\ pc = "walk" /\ impl = "sa"
  /\ files' = CollectImagePaths(fs, OsWalk(dirs), outName)
  /\ total_images' = Len(files')
  /\ scanLog' = files'
  /\ log' = Append(log, Line("found"))
  /\ idx' = 0
  /\ pc' = "file"
  /\ UNCHANGED <<impl, fs, dirs, outName, ocr, walkDirs, cur, processed_count,
                 skipped_count, original_stems, attempts, procLog, skipLog,
                 raised, run, history, result>>

\* lines 80-99: the next element of image_paths: output name, parent directory
SA_NextFile ==
  /\ pc = "file" /\ impl = "sa" /\ idx < Len(files)
  /\ LET f == files[idx + 1]
         stem == PathStem(f.name)
         out == ProcessedPath(outName, ocr, f)
     IN  /\ idx' = idx + 1
         /\ attempts' = <<>>
         /\ IF NameRaises(ocr, stem)
            THEN Raise("name") /\ cur' = [file |-> f, out |-> NoFile] /\ dirs' = dirs
            ELSE /\ cur' = [file |-> f, out |-> out]
                 /\ \E env \in MkdirOutcomes(out.dir) :
                      IF env = "ok"
                      THEN /\ pc' = "sniff" /\ raised' = raised
                           /\ dirs' = dirs \cup Prefixes(out.dir)
                      ELSE Raise("mkdir_parent") /\ dirs' = dirs
  /\ UNCHANGED <<impl, fs, outName, ocr, walkDirs, files, total_images,
                 processed_count, skipped_count, original_stems, log, scanLog,
                 procLog, skipLog, run, history, result>>

\* lines 102-107, 117-120 with load_image_safely lines 146-148: imghdr.what
\* inside the try; img is None: skip
SA_Sniff ==
  /\ pc = "sniff" /\ impl = "sa"
  /\ attempts' = Append(attempts, Att("sniff", NoFmt))
  /\ LET what == ImghdrWhat(Content(cur.file))
     IN  IF what = "raises"
         THEN log' = Append(log, Line("failed")) /\ Skip("raised", "file")
         ELSE IF IsNotImage(what)
         THEN log' = Append(log, Line("not_a_valid_image")) /\ Skip("sniff", "file")
         ELSE pc' = "direct" /\ UNCHANGED <<log, skipped_count, skipLog>>
  /\ UNCHANGED <<impl, fs, dirs, outName, ocr, walkDirs, files, idx, cur,
                 total_images, processed_count, original_stems, scanLog,
                 procLog, raised, run, history, result>>

\* load_image_safely lines 150-155: Image.open(image_path)
SA_Direct ==
  /\ pc = "direct" /\ impl = "sa"
  /\ attempts' = Append(attempts, Att("direct", NoFmt))
  /\ pc' = IF OpenPath(Content(cur.file)) THEN "process" ELSE "bytes"
  /\ UNCHANGED <<impl, fs, dirs, outName, ocr, walkDirs, files, idx, cur,
                 total_images, processed_count, skipped_count, original_stems,
                 log, scanLog, procLog, skipLog, raised, run, history, result>>

\* load_image_safely lines 157-163: Image.open(io.BytesIO(data)), else None
SA_Bytes ==
  /\ pc = "bytes" /\ impl = "sa"
  /\ attempts' = Append(attempts, Att("bytes", NoFmt))
  /\ IF OpenBytes(Content(cur.file))
     THEN pc' = "process" /\ UNCHANGED <<log, skipped_count, skipLog>>
     ELSE log' = Append(log, Line("not_a_valid_image")) /\ Skip("decode", "file")
  /\ UNCHANGED <<impl, fs, dirs, outName, ocr, walkDirs, files, idx, cur,
                 total_images, processed_count, original_stems, scanLog,
                 procLog, raised, run, history, result>>

\* lines 109-120: process_fn, save, count
SA_Process ==
  /\ pc = "process" /\ impl = "sa"
  /\ IF Saved(Content(cur.file))
     THEN /\ fs' = WriteFile(fs, cur.out, GoodImage)
          /\ log' = Append(log, Line("processed"))
          /\ original_stems' = Append(original_stems, PathStem(cur.file.name))
          /\ processed_count' = processed_count + 1
          /\ procLog' = Append(procLog, cur.file)
          /\ pc' = "file"
          /\ UNCHANGED <<skipped_count, skipLog>>
     ELSE /\ log' = Append(log, Line("failed"))
          /\ Skip("transform", "file")
          /\ UNCHANGED <<fs, original_stems, processed_count, procLog>>
  /\ UNCHANGED <<impl, dirs, outName, ocr, walkDirs, files, idx, cur,
                 total_images, attempts, scanLog, raised, run, history, result>>

\* f"{processed_count/total_images*100:.1f}%", to the nearest tenth
SuccessRate(p, t) ==
  LET tenths == (2000 * p + t) \div (2 * t)
  IN  IntStr(tenths \div 10) \o <<".">> \o IntStr(tenths % 10) \o <<"%">>

\* lines 126-140: the summary; the rate divides by total_images
SA_Summary ==
  /\ pc = "file" /\ impl = "sa" /\ idx = Len(files)
  /\ IF total_images = 0
     THEN Raise("ZeroDivisionError") /\ log' = log
     ELSE /\ log' = Append(log, [tag |-> "summary", total |-> total_images,
                                 processed |-> processed_count,
                                 skipped |-> skipped_count,
                                 rate |-> SuccessRate(processed_count, total_images)])
          /\ pc' = "done" /\ raised' = raised
  /\ UNCHANGED <<impl, fs, dirs, outName, ocr, walkDirs, files, idx, cur,
                 total_images, processed_count, skipped_count, original_stems,
                 attempts, scanLog, procLog, skipLog, run, history, result>>

\* the caller runs process_images again on the same input_folder
Rerun ==
  /\ pc = "done" /\ run < MaxRuns
  /\ pc' = "start"
  /\ run' = run + 1
  /\ history' = Append(history, total_images)
  /\ UNCHANGED <<impl, fs, dirs, outName, ocr, walkDirs, files, idx, cur,
                 total_images, processed_count, skipped_count, original_stems,
                 log, attempts, scanLog, procLog, skipLog, raised, result>>

(***************************************************************************)
(* Inputs                                                                  *)
(***************************************************************************)
A_PNG == <<"a",".","p","n","g">>
B_JPG == <<"b",".","j","p","g">>
StemA == <<"a">>

\* contents of the batch runs: one for each way through the two process_images
BatchContents ==
  { GoodImage,
    Data(TRUE, TRUE, TRUE, PNG, "process_fn"),
    Data(TRUE, TRUE, TRUE, PNG, "save"),
    EmptyFile,
    Unreadable,
    Data(FALSE, TRUE, TRUE, JPEG, "ok"),
    Data(TRUE, FALSE, TRUE, PNG, "ok"),
    Data(TRUE, FALSE, FALSE, JPEG, "ok"),
    Data(TRUE, FALSE, FALSE, PNG, "ok"),
    Data(TRUE, FALSE, FALSE, NoFmt, "ok") }
BatchPaths == {File(Root, A_PNG), File(<<"sub">>, A_PNG), File(Root, B_JPG)}
OcrOf(r) == Dict([k \in {StemA} |-> r])
BatchOcr == { PyNone, Dict(<<>>), OcrOf(Rec(<<12, 34>>)), OcrOf(Rec(<<7>>)),
              OcrOf(Rec(<<1, 2, 3>>)), OcrOf(NoKeys), OcrOf(BadRec) }

Trees(paths, contents, n) ==
  UNION {[S -> contents] : S \in {T \in SUBSET paths : Cardinality(T) <= n}}

InitRun ==
  /\ pc = "start"
  /\ walkDirs = <<>> /\ files = <<>> /\ idx = 0 /\ cur = NoCur
  /\ total_images = 0 /\ processed_count = 0 /\ skipped_count = 0
  /\ original_stems = <<>> /\ log = <<>> /\ attempts = <<>>
  /\ scanLog = <<>> /\ procLog = <<>> /\ skipLog = <<>>
  /\ raised = "none" /\ run = 1 /\ history = <<>> /\ result = "none"

Init ==
  /\ impl \in {"fi", "sa"}
  /\ outName = <<"output">>
  /\ ocr \in BatchOcr
  /\ fs \in Trees(BatchPaths, BatchContents, MaxFiles)
  /\ dirs = DirsOf(DOMAIN fs)
  /\ InitRun

Next ==
  \/ FI_Setup \/ FI_StartWalk \/ FI_NextRoot \/ FI_NextFile \/ FI_Sniff
  \/ FI_Direct \/ FI_Bytes \/ FI_ForceJpeg \/ FI_Process \/ FI_Summary
  \/ SA_Setup \/ SA_Collect \/ SA_NextFile \/ SA_Sniff \/ SA_Direct
  \/ SA_Bytes \/ SA_Process \/ SA_Summary

Spec == Init /\ [][Next]_vars

(***************************************************************************)
(* Scan runs: many names and directories, repeated calls                   *)
(***************************************************************************)
B_JPG_UP  == <<"b",".","J","P","G">>
C_JPEG    == <<"c",".","j","p","e","g">>
D_BMP     == <<"d",".","b","m","p">>
E_TIFF    == <<"e",".","t","i","f","f">>
F_TIF     == <<"f",".","t","i","f">>
G_GIF     == <<"g",".","G","i","f">>
H_TXT     == <<"h",".","t","x","t">>
I_TIF_UP  == <<"i",".","T","I","F">>
K_PNG_TXT == <<"k",".","p","n","g",".","t","x","t">>
M_WEBP    == <<"m",".","w","e","b","p">>
JPNG      == <<"j","p","n","g">>
DOT_PNG   == <<".","p","n","g">>

ScanPaths ==
  {File(Root, n) : n \in {A_PNG, B_JPG_UP, C_JPEG, D_BMP, E_TIFF, F_TIF, G_GIF,
                          H_TXT, I_TIF_UP, K_PNG_TXT, M_WEBP, JPNG, DOT_PNG}}
  \cup {File(<<"sub">>, A_PNG), File(<<"sub">>, F_TIF),
        File(<<"sub", "output">>, A_PNG),
        File(<<"output">>, A_PNG), File(<<"output", "sub">>, G_GIF)}

\* in the scan runs the content goes with the name
ScanContent(f) ==
  CASE f.name = B_JPG_UP -> Data(TRUE, FALSE, TRUE, JPEG, "ok")
    [] f.name = C_JPEG   -> Data(TRUE, FALSE, FALSE, JPEG, "ok")
    [] f.name = D_BMP    -> Data(TRUE, FALSE, FALSE, NoFmt, "ok")
    [] f.name = E_TIFF   -> Data(TRUE, TRUE, TRUE, TIFF, "process_fn")
    [] f.name = G_GIF    -> EmptyFile
    [] f.name \in {H_TXT, K_PNG_TXT, JPNG} -> TextFile
    [] OTHER -> GoodImage

InitScan ==
  /\ impl \in {"fi", "sa"}
  /\ outName \in {<<"output">>, <<"sub", "output">>}
  /\ ocr = PyNone
  /\ \E S \in {T \in SUBSET ScanPaths : Cardinality(T) <= MaxScanFiles} :
       fs = [f \in S |-> ScanContent(f)]
  /\ dirs = DirsOf(DOMAIN fs)
  /\ InitRun

NextScan == Next \/ Rerun

SpecScan == InitScan /\ [][NextScan]_vars

(***************************************************************************)
(* folder_importer.safe_load_image                                         *)
(***************************************************************************)
\* lines 48-52: ext = suffix.lower().strip('.'); jpg -> jpeg; ext.upper()
ForcedFormat(name) ==
  LET ext == StripDot(Lower(PathSuffix(name)))
  IN  Upper(IF ext = <<"j","p","g">> THEN <<"j","p","e","g">> ELSE ext)

Return(v) ==
  /\ result' = v
  /\ pc' = "returned"

\* lines 20-23
SL_Sniff ==
  /\ pc = "l_sniff"
  /\ attempts' = Append(attempts, Att("sniff", NoFmt))
  /\ LET what == ImghdrWhat(Content(cur.file))
     IN  IF what = "raises" THEN Raise("sniff") /\ result' = result
         ELSE IF IsNotImage(what) THEN Return("None") /\ raised' = raised
         ELSE pc' = "l_direct" /\ UNCHANGED <<result, raised>>
  /\ UNCHANGED <<impl, fs, dirs, outName, ocr, walkDirs, files, idx, cur,
                 total_images, processed_count, skipped_count, original_stems,
                 log, scanLog, procLog, skipLog, run, history>>

\* lines 25-31
SL_Direct ==
  /\ pc = "l_direct"
  /\ attempts' = Append(attempts, Att("direct", NoFmt))
  /\ IF OpenPath(Content(cur.file)) THEN Return("image")
     ELSE pc' = "l_bytes" /\ result' = result
  /\ UNCHANGED <<impl, fs, dirs, outName, ocr, walkDirs, files, idx, cur,
                 total_images, processed_count, skipped_count, original_stems,
                 log, scanLog, procLog, skipLog, raised, run, history>>

\* lines 33-40
SL_Bytes ==
  /\ pc = "l_bytes"
  /\ attempts' = Append(attempts, Att("bytes", NoFmt))
  /\ IF OpenBytes(Content(cur.file)) THEN Return("image")
     ELSE pc' = "l_forced" /\ result' = result
  /\ UNCHANGED <<impl, fs, dirs, outName, ocr, walkDirs, files, idx, cur,
                 total_images, processed_count, skipped_count, original_stems,
                 log, scanLog, procLog, skipLog, raised, run, history>>

\* lines 42-55
SL_Forced ==
  /\ pc = "l_forced"
  /\ LET f == ForcedFormat(cur.file.name)
     IN  /\ attempts' = Append(attempts, Att("forced", f))
         /\ IF OpenAs(Content(cur.file), f) THEN Return("image") /\ idx' = idx
            ELSE pc' = "l_common" /\ idx' = 1 /\ result' = result
  /\ UNCHANGED <<impl, fs, dirs, outName, ocr, walkDirs, files, cur,
                 total_images, processed_count, skipped_count, original_stems,
                 log, scanLog, procLog, skipLog, raised, run, history>>

\* lines 57-67: one turn of `for fmt in common_formats`
SL_Common ==
  /\ pc = "l_common" /\ idx <= Len(common_formats)
  /\ LET fmt == common_formats[idx]
     IN  /\ attempts' = Append(attempts, Att("common", fmt))
         /\ IF OpenAs(Content(cur.file), fmt) THEN Return("image") /\ idx' = idx
            ELSE pc' = "l_common" /\ idx' = idx + 1 /\ result' = result
  /\ UNCHANGED <<impl, fs, dirs, outName, ocr, walkDirs, files, cur,
                 total_images, processed_count, skipped_count, original_stems,
                 log, scanLog, procLog, skipLog, raised, run, history>>

\* line 69
SL_Exhausted ==
  /\ pc = "l_common" /\ idx > Len(common_formats)
  /\ Return("None")
  /\ UNCHANGED <<impl, fs, dirs, outName, ocr, walkDirs, files, idx, cur,
                 total_images, processed_count, skipped_count, original_stems,
                 log, attempts, scanLog, procLog, skipLog, raised, run, history>>

LoadNames == {A_PNG, B_JPG, B_JPG_UP, C_JPEG, D_BMP, E_TIFF, F_TIF, G_GIF, M_WEBP}

InitLoad ==
  /\ impl = "load"
  /\ outName = <<"output">>
  /\ ocr = PyNone
  /\ \E n \in LoadNames : \E c \in Contents :
       /\ fs = [f \in {File(Root, n)} |-> c]
       /\ cur = [file |-> File(Root, n), out |-> NoFile]
  /\ dirs = {Root}
  /\ pc = "l_sniff"
  /\ walkDirs = <<>> /\ files = <<>> /\ idx = 0
  /\ total_images = 0 /\ processed_count = 0 /\ skipped_count = 0
  /\ original_stems = <<>> /\ log = <<>> /\ attempts = <<>>
  /\ scanLog = <<>> /\ procLog = <<>> /\ skipLog = <<>>
  /\ raised = "none" /\ run = 1 /\ history = <<>> /\ result = "none"

NextLoad ==
  \/ SL_Sniff \/ SL_Direct \/ SL_Bytes \/ SL_Forced \/ SL_Common \/ SL_Exhausted

SpecLoad == InitLoad /\ [][NextLoad]_vars

(***************************************************************************)
(* Properties                                                              *)
(***************************************************************************)
Occ(x, sq) == Cardinality({i \in 1..Len(sq) : sq[i] = x})
Range(sq) == {sq[i] : i \in 1..Len(sq)}
SkipFiles == [i \in 1..Len(skipLog) |-> skipLog[i].file]
InOutput(f) == IsPrefix(outName, f.dir)

\* C1: when process_images finishes, scanned == processed + skipped, and every
\* scanned file was counted exactly once, as processed or as skipped.
C1_ScannedIsProcessedPlusSkipped ==
  pc = "done" =>
    /\ total_images = processed_count + skipped_count
    /\ total_images = Len(scanLog)
    /\ processed_count = Len(procLog)
    /\ skipped_count = Len(skipLog)
    /\ \A i \in 1..Len(scanLog) :
         Occ(scanLog[i], procLog) + Occ(scanLog[i], SkipFiles) = 1
C1_Witness ==
  /\ pc = "done" /\ processed_count >= 1 /\ skipped_count >= 1
  /\ \E i \in 1..Len(skipLog) : skipLog[i].reason = "decode"

\* the candidates of a tree, and when one of them decodes in the running implementation
C2_Candidates == {f \in DOMAIN fs : ~InOutput(f) /\ IsImageName(f.name, IMAGE_EXTENSIONS)}
C2_Decodes(c) ==
  /\ ImghdrWhat(c) = "image"
  /\ OpenPath(c) \/ OpenBytes(c) \/ (impl = "fi" /\ OpenAs(c, JPEG))
C2_Failing == {f \in C2_Candidates : fs[f].xform # "ok"}
C2_Pre ==
  /\ \A f \in C2_Candidates : C2_Decodes(fs[f]) /\ ~NameRaises(ocr, PathStem(f.name))
  /\ Cardinality(C2_Failing) = 1

\* C2: the transform (or the save) fails for exactly one of N candidates that all
\* decode: the run is stopped by nothing but a directory/log fault, it reaches the
\* summary, that file is the one skip and adds no stem, and the other N-1 are
\* processed, written and returned.
C2_OneTransformFailureIsOneSkip ==
  C2_Pre =>
    /\ raised \in {"none", "mkdir", "open", "mkdir_parent"}
    /\ pc \notin {"done", "raised"} => ENABLED Next
    /\ pc = "done" =>
         LET bad == CHOOSE f \in C2_Failing : TRUE
             good == C2_Candidates \ {bad}
         IN  /\ Range(scanLog) = C2_Candidates
             /\ total_images = Cardinality(C2_Candidates)
             /\ log[Len(log)].tag = "summary"
             /\ skipped_count = 1
             /\ SkipFiles = <<bad>>
             /\ ProcessedPath(outName, ocr, bad) \notin DOMAIN fs
             /\ processed_count = Cardinality(good)
             /\ Range(procLog) = good
             /\ \A f \in good : ProcessedPath(outName, ocr, f) \in DOMAIN fs
             /\ original_stems = [i \in 1..Len(procLog) |-> PathStem(procLog[i].name)]
C2_Witness ==
  /\ pc = "done" /\ C2_Pre
  /\ Cardinality(C2_Candidates) = 2
  /\ processed_count = 1 /\ skipped_count = 1

\* C3: after the setup no error of a single file (output name, parent directory,
\* sniff, decode, transform, save) leaves process_images.
C3_NoPerFileErrorPropagates == raised \notin {"name", "mkdir_parent", "sniff"}

\* C4: nothing inside the output folder is scanned, and a later run on the same
\* tree scans as many files as the runs before it.
C4_RerunScansTheSame ==
  /\ \A i \in 1..Len(scanLog) : ~InOutput(scanLog[i])
  /\ pc = "done" => \A r \in 1..Len(history) : history[r] = total_images
C4_Witness ==
  /\ pc = "done" /\ run = 2 /\ processed_count >= 1
  /\ history = <<total_images>>
  /\ \E f \in DOMAIN fs : InOutput(f) /\ IsImageName(f.name, IMAGE_EXTENSIONS)

\* C5: with no candidate file the run ends normally and its summary reports the
\* success rate 0.0%.
C5_ZeroCandidatesReportZeroRate ==
  /\ raised # "ZeroDivisionError"
  /\ (pc = "done" /\ total_images = 0) =>
       log[Len(log)].rate = <<"0", ".", "0", "%">>

\* the recognized extensions, as the interface lists them
C6_Extensions == { <<".","p","n","g">>, <<".","j","p","g">>, <<".","j","p","e","g">>,
                   <<".","b","m","p">>, <<".","t","i","f","f">>, <<".","t","i","f">>,
                   <<".","g","i","f">> }

\* C6: the scanned files are exactly the files outside the output folder whose
\* extension, lower-cased, is .png .jpg .jpeg .bmp .tiff .tif or .gif.
C6_ScannedAreTheImageExtensions ==
  pc = "done" =>
    Range(scanLog) = {f \in DOMAIN fs :
                        ~InOutput(f) /\ Lower(PathSuffix(f.name)) \in C6_Extensions}

\* the output name of file f, from the side channel
C7_Expected(f) ==
  LET s == PathStem(f.name)
      e == PathSuffix(f.name)
      two == /\ ~ocr.none
             /\ s \in DOMAIN ocr.map
             /\ "X" \in DOMAIN ocr.map[s]
             /\ ocr.map[s]["X"].list
             /\ Len(ocr.map[s]["X"].vals) >= 2
  IN  IF two
      THEN IntStr(ocr.map[s]["X"].vals[1]) \o <<"_">>
             \o IntStr(ocr.map[s]["X"].vals[2]) \o <<"_">> \o s \o e
      ELSE s \o e

\* C7: the output name is "<first>_<second>_" + stem + extension when ocr_results
\* holds at least two 'X' values for the stem, and stem + extension otherwise; the
\* file is written under that name in the mirrored directory.
C7_OutputName ==
  /\ cur.out # NoFile =>
       cur.out = File(outName \o cur.file.dir, C7_Expected(cur.file))
  /\ \A i \in 1..Len(procLog) :
       File(outName \o procLog[i].dir, C7_Expected(procLog[i])) \in DOMAIN fs
C7_Witness ==
  /\ File(<<"output">>, <<"1","2","_","3","4","_","a",".","p","n","g">>) \in DOMAIN fs
  /\ File(<<"output">>, <<"b",".","j","p","g">>) \in DOMAIN fs
  /\ Len(procLog) = 2

\* the i-th scanned file has left its loop iteration
C8_Handled(i) ==
  /\ i <= (IF impl = "sa" THEN idx ELSE Len(scanLog))
  /\ scanLog[i] # cur.file \/ pc \in {"file", "root", "done"}
\* C8: a file that fails the type sniff (a zero-byte file among them) is skipped,
\* never processed, has no output, and no decode is attempted on it.
C8_SniffFailureSkipsWithoutDecode ==
  /\ \A i \in 1..Len(scanLog) :
       LET f == scanLog[i]
       IN  C8_Handled(i) /\ ImghdrWhat(fs[f]) = "None"
             => /\ [file |-> f, reason |-> "sniff"] \in Range(skipLog)
                /\ f \notin Range(procLog)
                /\ ProcessedPath(outName, ocr, f) \notin DOMAIN fs
  /\ (cur.file # NoFile /\ ImghdrWhat(fs[cur.file]) = "None") =>
       /\ \A k \in 1..Len(attempts) : attempts[k].strategy = "sniff"
       /\ pc \notin {"direct", "bytes", "forced", "process"}
C8_Witness ==
  /\ pc = "done"
  /\ \E i \in 1..Len(skipLog) :
       /\ skipLog[i].reason = "sniff"
       /\ fs[skipLog[i].file] = EmptyFile
  /\ attempts = <<Att("sniff", NoFmt)>>

\* the order of the strategies for a file name, and the outcome of one of them
C9_Token(name) ==
  LET e == Lower(PathSuffix(name))
      ext == SubSeq(e, 2, Len(e))
  IN  IF ext = <<"j","p","g">> THEN <<"J","P","E","G">> ELSE Upper(ext)
C9_Order(name) ==
  << Att("sniff", NoFmt), Att("direct", NoFmt), Att("bytes", NoFmt),
     Att("forced", C9_Token(name)),
     Att("common", <<"J","P","E","G">>), Att("common", <<"P","N","G">>),
     Att("common", <<"B","M","P">>), Att("common", <<"T","I","F","F">>),
     Att("common", <<"G","I","F">>), Att("common", <<"W","E","B","P">>) >>
C9_Succeeds(a, c) ==
  CASE a.strategy = "sniff"  -> ImghdrWhat(c) = "image"
    [] a.strategy = "direct" -> OpenPath(c)
    [] a.strategy = "bytes"  -> OpenBytes(c)
    [] OTHER -> OpenAs(c, a.fmt)

\* C9: safe_load_image tries sniff, direct, byte buffer, forced format (from the
\* extension, jpg as JPEG), then JPEG PNG BMP TIFF GIF WEBP, in that order; a
\* strategy is tried only after the one before it failed, the first success
\* returns at once, and None is returned only after the sniff or all of them failed.
C9_CascadeOrder ==
  LET c == fs[cur.file]
      order == C9_Order(cur.file.name)
      n == Len(attempts)
  IN  /\ n <= Len(order)
      /\ attempts = SubSeq(order, 1, n)
      /\ n >= 2 => C9_Succeeds(attempts[1], c)
      /\ \A k \in 2..(n - 1) : ~C9_Succeeds(attempts[k], c)
      /\ (n >= 2 /\ C9_Succeeds(attempts[n], c)) => (pc = "returned" /\ result = "image")
      /\ (pc = "returned" /\ result = "image") => (n >= 2 /\ C9_Succeeds(attempts[n], c))
      /\ (pc = "returned" /\ result = "None") =>
           \/ n = 1 /\ ~C9_Succeeds(attempts[1], c)
           \/ n = Len(order) /\ \A k \in 2..n : ~C9_Succeeds(attempts[k], c)
      /\ pc # "returned" => result = "none"
C9_Witness ==
  /\ pc = "returned" /\ result = "image"
  /\ Len(attempts) = 8
  /\ attempts[4] = Att("forced", <<"J","P","E","G">>)
  /\ attempts[8] = Att("common", <<"T","I","F","F">>)

\* C10: process_images skips a sniff-passing file as undecodable only if direct,
\* byte-buffer, extension-forced and every exhaustive-format decode fail on it.
C10_SkipOnlyWhenCascadeExhausted ==
  \A i \in 1..Len(skipLog) :
    skipLog[i].reason = "decode" =>
      LET c == fs[skipLog[i].file]
      IN  /\ ~OpenPath(c)
          /\ ~OpenBytes(c)
          /\ ~OpenAs(c, ForcedFormat(skipLog[i].file.name))
          /\ \A k \in 1..Len(common_formats) : ~OpenAs(c, common_formats[k])

====
